---- MODULE Spec2Model ----
(***************************************************************************)
(* Model of src/src/data_pipeline.py: the movie-metadata normalisation     *)
(* pipeline (download, extract, read, per-row normalisation, pandas        *)
(* finalisation, export, fatal handler and the finally clean-up).          *)
(*                                                                         *)
(* A cell of an embedded list column is abstracted as                      *)
(*   isStr : the cell is a Python str (FALSE: the float NaN pandas gives   *)
(*           for an empty CSV cell),                                       *)
(*   quote : the delimiter written around keys and strings in the text,    *)
(*   apos  : some string of the text contains an apostrophe,               *)
(*   json  : the structure the text denotes once its delimiters are valid. *)
(* A DataFrame is the sequence of its rows; the fact table is the sequence *)
(* of the surviving row labels of movies_df.                               *)
(***************************************************************************)
EXTENDS Integers, Sequences, FiniteSets, TLC

\* Largest number of rows of the source table.
MaxRows == 2

MovieIds == {1, 2}

\* ---------------------------------------------------------------- inputs
E1A == [id |-> 1, name |-> "A"]
E1B == [id |-> 1, name |-> "B"]
E2A == [id |-> 2, name |-> "A"]
\* An entity without the 'name' key.
NoName == [id |-> 2]

JList(items) == [t |-> "list", items |-> items]
JInt == [t |-> "int", items |-> <<>>]

Text(q, a, j) == [isStr |-> TRUE, quote |-> q, apos |-> a, json |-> j]
NaNCell == [isStr |-> FALSE, quote |-> "none", apos |-> FALSE, json |-> JInt]

\* The cell values an embedded list column takes in the model.
Cells ==
    { NaNCell,
      Text("none", FALSE, JList(<<E1A>>)),
      Text("none", FALSE, JInt),
      Text("single", TRUE, JList(<<E1A>>)),
      Text("single", FALSE, JList(<<E1A, E1B>>)),
      Text("single", FALSE, JList(<<E2A, NoName>>)) }

RowsWithId == [id : MovieIds, genres : Cells, production_companies : Cells]
RowsNoId == [genres : Cells, production_companies : Cells]

SeqsUpTo(S, n) == UNION { [1..k -> S] : k \in 0..n }

\* A CSV either has the 'id' column or lacks it in every row.
Tables == SeqsUpTo(RowsWithId, MaxRows) \cup SeqsUpTo(RowsNoId, MaxRows)

\* ------------------------------------------------------- parse_json_string
\* json_str.replace("'", "\""): every single quote becomes a double quote, the
\* delimiters and the apostrophes inside strings alike.
Replace(c) ==
    [isStr |-> TRUE,
     quote |-> IF c.quote = "single" THEN "double" ELSE c.quote,
     stray |-> c.apos,
     json |-> c.json]

HasStrings(j) == j.t = "list" /\ Len(j.items) > 0

\* json.loads: strict parsing accepts the text iff every key and string is
\* delimited by double quotes and no stray double quote is inside a string.
JsonLoads(r) ==
    IF HasStrings(r.json) /\ (r.quote # "double" \/ r.stray)
    THEN [raised |-> "JSONDecodeError", value |-> JList(<<>>)]
    ELSE [raised |-> "", value |-> r.json]

parse_json_string(json_str) ==
    IF ~json_str.isStr
    THEN [raised |-> "AttributeError", value |-> JList(<<>>)]
    ELSE LET r == JsonLoads(Replace(json_str))
         IN IF r.raised = "JSONDecodeError"
            THEN [raised |-> "", value |-> JList(<<>>)]
            ELSE r

\* ------------------------------------------------------ the two for loops
NoAcc == [ents |-> <<>>, pairs |-> <<>>, exc |-> ""]

\* LoopStep with the association appended before the name is looked up.
LoopStepPairFirst(acc, e, movie_id) ==
    IF "id" \notin DOMAIN e THEN [acc EXCEPT !.exc = "KeyError: 'id'"]
    ELSE IF "name" \notin DOMAIN e
    THEN [ents |-> acc.ents,
          pairs |-> Append(acc.pairs, [movie_id |-> movie_id, id |-> e.id]),
          exc |-> "KeyError: 'name'"]
    ELSE [ents |-> Append(acc.ents, [id |-> e.id, name |-> e.name]),
          pairs |-> Append(acc.pairs, [movie_id |-> movie_id, id |-> e.id]),
          exc |-> ""]

\* One iteration of `for genre in genres_data` / `for company in companies_data`.
LoopStep(acc, e, movie_id) ==
    IF "id" \notin DOMAIN e THEN [acc EXCEPT !.exc = "KeyError: 'id'"]
    ELSE IF "name" \notin DOMAIN e THEN [acc EXCEPT !.exc = "KeyError: 'name'"]
    ELSE [ents |-> Append(acc.ents, [id |-> e.id, name |-> e.name]),
          pairs |-> Append(acc.pairs, [movie_id |-> movie_id, id |-> e.id]),
          exc |-> ""]

RECURSIVE Loop(_, _, _, _)
Loop(acc, items, i, movie_id) ==
    IF acc.exc # "" \/ i > Len(items) THEN acc
    ELSE Loop(LoopStep(acc, items[i], movie_id), items, i + 1, movie_id)

\* parse one embedded field and explode it: what the field appends to its
\* entity list and its bridge list, and the exception that ended it ("" none).
ProcessField(cell, movie_id) ==
    LET r == parse_json_string(cell)
    IN IF r.raised # "" THEN [NoAcc EXCEPT !.exc = r.raised]
       ELSE IF r.value.t # "list" THEN [NoAcc EXCEPT !.exc = "TypeError"]
       ELSE Loop(NoAcc, r.value.items, 1, movie_id)

\* TryBody with one try block per field: a failing genres field does not skip
\* the production companies.
TryBodyPerField(row) ==
    IF "id" \notin DOMAIN row
    THEN [g |-> NoAcc, c |-> NoAcc, exc |-> "KeyError: 'id'", escaped |-> TRUE]
    ELSE LET g == ProcessField(row.genres, row.id)
             c == ProcessField(row.production_companies, row.id)
         IN [g |-> g, c |-> c,
             exc |-> IF g.exc # "" THEN g.exc ELSE c.exc,
             escaped |-> FALSE]

\* The body of the per-row try block.  escaped: the exception the except
\* clause itself raises when it formats row['id'].
TryBody(row) ==
    IF "id" \notin DOMAIN row
    THEN [g |-> NoAcc, c |-> NoAcc, exc |-> "KeyError: 'id'", escaped |-> TRUE]
    ELSE LET g == ProcessField(row.genres, row.id)
             c == IF g.exc # "" THEN NoAcc
                  ELSE ProcessField(row.production_companies, row.id)
         IN [g |-> g, c |-> c,
             exc |-> IF g.exc # "" THEN g.exc ELSE c.exc,
             escaped |-> FALSE]

\* ------------------------------------------------------------- pandas
\* drop_duplicates left out.
DropDuplicatesNone(s) == s

\* DataFrame.drop_duplicates(): keep the first of equal rows, in order.
DropDuplicates(s) ==
    LET F[i \in 0..Len(s)] ==
            IF i = 0 THEN <<>>
            ELSE IF \E j \in 1..(i - 1) : s[j] = s[i] THEN F[i - 1]
                 ELSE Append(F[i - 1], s[i])
    IN F[Len(s)]

\* drop_duplicates(subset=['movie_id'], keep='last').
DropDuplicatesSubsetLast(df) ==
    LET F[i \in 0..Len(df)] ==
            IF i = 0 THEN <<>>
            ELSE IF \E j \in (i + 1)..Len(df) : df[j].id = df[i].id THEN F[i - 1]
                 ELSE Append(F[i - 1], i)
    IN F[Len(df)]

\* movies_df.drop_duplicates(subset=['movie_id']): the labels of the rows kept.
DropDuplicatesSubset(df) ==
    LET F[i \in 0..Len(df)] ==
            IF i = 0 THEN <<>>
            ELSE IF \E j \in 1..(i - 1) : df[j].id = df[i].id THEN F[i - 1]
                 ELSE Append(F[i - 1], i)
    IN F[Len(df)]

\* pd.DataFrame(list).drop_duplicates().set_index(key): a DataFrame built from
\* an empty list has no columns, so set_index raises KeyError.
SetIndexRaises(list) == list = <<>>

\* ------------------------------------------------------------- state
VARIABLES pc, exitCode, csvFile, movies_df, index, exc, log,
          genres_list, movie_genres_list,
          production_companies_list, movie_production_companies_list,
          genres_df, movie_genres_df,
          production_companies_df, movie_production_companies_df,
          movies_out, finalized

lists == <<genres_list, movie_genres_list,
           production_companies_list, movie_production_companies_list>>
frames == <<genres_df, movie_genres_df, production_companies_df,
            movie_production_companies_df, movies_out, finalized>>
vars == <<pc, exitCode, csvFile, movies_df, index, exc, log, lists, frames>>

Msg(kind, id, cause) == [kind |-> kind, id |-> id, cause |-> cause]

Init ==
    /\ pc = "start"
    /\ exitCode = 0
    /\ csvFile \in {"absent", "stale"}
    /\ movies_df = <<>>
    /\ index = 0
    /\ exc = ""
    /\ log = <<>>
    /\ genres_list = <<>>
    /\ movie_genres_list = <<>>
    /\ production_companies_list = <<>>
    /\ movie_production_companies_list = <<>>
    /\ genres_df = <<>>
    /\ movie_genres_df = <<>>
    /\ production_companies_df = <<>>
    /\ movie_production_companies_df = <<>>
    /\ movies_out = <<>>
    /\ finalized = FALSE

\* len(sys.argv) < 2: usage message and sys.exit(1); otherwise go on.
CheckArgs ==
    /\ pc = "start"
    /\ \/ pc' = "exited" /\ exitCode' = 1
       \/ pc' = "setup" /\ exitCode' = exitCode
    /\ UNCHANGED <<csvFile, movies_df, index, exc, log, lists, frames>>

\* rmtree / makedirs / open of the log file, outside the try block: a failure
\* is an uncaught exception.
Setup ==
    /\ pc = "setup"
    /\ \/ pc' = "download" /\ exitCode' = exitCode
       \/ pc' = "exited" /\ exitCode' = 1
    /\ UNCHANGED <<csvFile, movies_df, index, exc, log, lists, frames>>

Download ==
    /\ pc = "download"
    /\ \/ /\ pc' = "extract"
          /\ exc' = exc
          /\ log' = log \o <<Msg("info", 0, "Starting"), Msg("info", 0, "Download complete")>>
       \/ /\ pc' = "fatal"
          /\ exc' = "Failed to download file from S3"
          /\ log' = Append(log, Msg("info", 0, "Starting"))
    /\ UNCHANGED <<exitCode, csvFile, movies_df, index, lists, frames>>

\* zip_ref.extract(MOVIES_CSV, "."): a failing extract may leave a partial file.
Extract ==
    /\ pc = "extract"
    /\ \/ pc' = "read" /\ exc' = exc /\ csvFile' = "extracted"
       \/ pc' = "fatal" /\ exc' = "BadZipFile" /\ csvFile' \in {csvFile, "extracted"}
    /\ UNCHANGED <<exitCode, movies_df, index, log, lists, frames>>

ReadCsv ==
    /\ pc = "read"
    /\ \/ pc' = "rows" /\ exc' = exc /\ movies_df' \in Tables
       \/ pc' = "fatal" /\ exc' = "ParserError" /\ movies_df' = movies_df
    /\ UNCHANGED <<exitCode, csvFile, index, log, lists, frames>>

\* One iteration of `for index, row in movies_df.iterrows()`.
ProcessRow ==
    /\ pc = "rows"
    /\ index < Len(movies_df)
    /\ LET row == movies_df[index + 1]
           r == TryBody(row)
       IN /\ genres_list' = genres_list \o r.g.ents
          /\ movie_genres_list' = movie_genres_list \o r.g.pairs
          /\ production_companies_list' = production_companies_list \o r.c.ents
          /\ movie_production_companies_list' =
                 movie_production_companies_list \o r.c.pairs
          /\ IF r.escaped
             THEN pc' = "fatal" /\ exc' = r.exc /\ log' = log /\ index' = index
             ELSE /\ pc' = pc
                  /\ exc' = exc
                  /\ index' = index + 1
                  /\ log' = IF r.exc = "" THEN log
                            ELSE Append(log, Msg("row_error", row.id, r.exc))
    /\ UNCHANGED <<exitCode, csvFile, movies_df, frames>>

\* Lines 126-137: the four DataFrames, then the fact table.
Finalize ==
    /\ pc = "rows"
    /\ index = Len(movies_df)
    /\ IF SetIndexRaises(production_companies_list)
       THEN pc' = "fatal" /\ exc' = "KeyError: company_id" /\ UNCHANGED frames
       ELSE IF SetIndexRaises(genres_list)
       THEN pc' = "fatal" /\ exc' = "KeyError: genre_id" /\ UNCHANGED frames
       ELSE /\ pc' = "export"
            /\ exc' = exc
            /\ production_companies_df' = DropDuplicates(production_companies_list)
            /\ genres_df' = DropDuplicates(genres_list)
            /\ movie_genres_df' = DropDuplicates(movie_genres_list)
            /\ movie_production_companies_df' =
                   DropDuplicates(movie_production_companies_list)
            /\ movies_out' = DropDuplicatesSubset(movies_df)
            /\ finalized' = TRUE
    /\ UNCHANGED <<exitCode, csvFile, movies_df, index, log, lists>>

\* Lines 139-173: makedirs, five to_csv, the SQL file, the closing messages.
Export ==
    /\ pc = "export"
    /\ \/ /\ pc' = "finally"
          /\ exc' = exc
          /\ log' = Append(log, Msg("info", 0, "Data processing complete"))
       \/ pc' = "fatal" /\ exc' = "OSError" /\ log' = log
    /\ UNCHANGED <<exitCode, csvFile, movies_df, index, lists, frames>>

\* except Exception as e: print and sys.exit(1).
Fatal ==
    /\ pc = "fatal"
    /\ pc' = "finally"
    /\ exitCode' = 1
    /\ log' = Append(log, Msg("fatal", 0, exc))
    /\ UNCHANGED <<csvFile, movies_df, index, exc, lists, frames>>

\* The finally clause without the os.remove.
FinallyNoRemove ==
    /\ pc = "finally"
    /\ pc' = "exited"
    /\ UNCHANGED <<csvFile, exitCode, movies_df, index, exc, log, lists, frames>>

\* finally: os.remove(MOVIES_CSV) when it exists.
Finally ==
    /\ pc = "finally"
    /\ pc' = "exited"
    /\ csvFile' = "absent"
    /\ UNCHANGED <<exitCode, movies_df, index, exc, log, lists, frames>>

Next ==
    \/ CheckArgs
    \/ Setup
    \/ Download
    \/ Extract
    \/ ReadCsv
    \/ ProcessRow
    \/ Finalize
    \/ Export
    \/ Fatal
    \/ Finally

Spec == Init /\ [][Next]_vars

\* ------------------------------------------------------------ properties
Range(s) == { s[i] : i \in 1..Len(s) }
HasId(row) == "id" \in DOMAIN row
ExternalFailures == {"Failed to download file from S3", "BadZipFile", "ParserError", "OSError"}
SetIndexFailures == {"KeyError: company_id", "KeyError: genre_id"}

\* The first position of entity id `id` in an entity list.
FirstIdx(list, id) == CHOOSE k \in 1..Len(list) :
    list[k].id = id /\ \A j \in 1..(k - 1) : list[j].id # id

UniqueIds(df) == \A i, j \in 1..Len(df) : df[i].id = df[j].id => i = j
FirstSeenNames(list, df) ==
    \A k \in 1..Len(list) :
        \E r \in Range(df) : r.id = list[k].id /\ r.name = list[FirstIdx(list, list[k].id)].name

\* C1: after finalize each exported entity table has no two rows with the same
\* entity id, and every recorded id is exported with its first-seen name.
C1_EntityDedup ==
    finalized =>
        /\ UniqueIds(genres_df) /\ FirstSeenNames(genres_list, genres_df)
        /\ UniqueIds(production_companies_df)
        /\ FirstSeenNames(production_companies_list, production_companies_df)

\* The text of the cell is a string that replace-then-parse rejects.
Unparseable(cell) == cell.isStr /\ JsonLoads(Replace(cell)).raised # ""

PairsOf(bridge, id) == { p \in Range(bridge) : p.movie_id = id }
OnlyRowWithId(i) == \A j \in 1..Len(movies_df) : movies_df[j].id = movies_df[i].id => j = i

\* C2: a run over a table that has a row with an unparseable embedded field, and
\* that meets no transfer, archive, read or write failure, exits 0 with the
\* tables built; that row adds nothing for the field, keeps its fact row and the
\* entities of its other field.
C2_RowIsolation ==
    (pc = "exited" /\ exc \notin ExternalFailures) =>
        \A i \in 1..Len(movies_df) :
            LET row == movies_df[i] IN
            /\ (HasId(row) /\ Unparseable(row.genres)) =>
                  /\ exitCode = 0 /\ finalized
                  /\ \E k \in 1..Len(movies_out) : movies_df[movies_out[k]].id = row.id
                  /\ OnlyRowWithId(i) => PairsOf(movie_genres_df, row.id) = {}
                  /\ Range(ProcessField(row.production_companies, row.id).ents)
                         \subseteq Range(production_companies_df)
            /\ (HasId(row) /\ Unparseable(row.production_companies)) =>
                  /\ exitCode = 0 /\ finalized
                  /\ \E k \in 1..Len(movies_out) : movies_df[movies_out[k]].id = row.id
                  /\ OnlyRowWithId(i) => PairsOf(movie_production_companies_df, row.id) = {}
                  /\ Range(ProcessField(row.genres, row.id).ents) \subseteq Range(genres_df)

\* C3: an exception raised while normalizing a row is logged for that row and
\* never becomes the exception of the top-level handler, and once the loop is
\* left every row has been processed.
C3_RowContainment ==
    /\ \A i \in 1..index :
           TryBody(movies_df[i]).exc # "" =>
               \E k \in 1..Len(log) :
                   log[k] = Msg("row_error", movies_df[i].id, TryBody(movies_df[i]).exc)
    /\ pc = "fatal" => exc \in ExternalFailures \cup SetIndexFailures
    /\ pc \in {"fatal", "export", "finally", "exited"} /\ exc \notin ExternalFailures
           => index = Len(movies_df)

\* C4: parse_json_string raises on no cell of a processed row, so no row is
\* logged with an exception of the parser.
C4_ParserNeverRaises ==
    /\ \A i \in 1..index : parse_json_string(movies_df[i].genres).raised = ""
    /\ \A k \in 1..Len(log) : log[k].cause # "AttributeError"

\* C5: finalizing the registries and accumulators never fails, whatever was
\* recorded: it raises nothing, and the run reaches export with the tables built.
C5_FinalizeSucceeds ==
    /\ exc \notin SetIndexFailures
    /\ pc = "export" => finalized

\* C6: the fact table holds exactly one row per distinct primary identifier, the
\* first occurrence in source order, whether or not that row's normalization failed.
C6_FactDedup ==
    finalized =>
        /\ \A i \in 1..Len(movies_df) :
               (i \in Range(movies_out)) <=>
                   (\A j \in 1..(i - 1) : movies_df[j].id # movies_df[i].id)
        /\ \A a, b \in 1..Len(movies_out) : a < b => movies_out[a] < movies_out[b]

C6_Witness ==
    /\ finalized
    /\ Len(movies_df) = 2
    /\ movies_df[1].id = movies_df[2].id
    /\ TryBody(movies_df[1]).exc # ""
    /\ movies_out = <<1>>

NoDup(s) == \A i, j \in 1..Len(s) : s[i] = s[j] => i = j
FirstPos(list, x) == CHOOSE k \in 1..Len(list) :
    list[k] = x /\ \A j \in 1..(k - 1) : list[j] # x
FirstSeenOrder(list, df) ==
    \A a, b \in 1..Len(df) : a < b => FirstPos(list, df[a]) < FirstPos(list, df[b])
BridgeOf(list, df) == NoDup(df) /\ Range(df) = Range(list) /\ FirstSeenOrder(list, df)

\* C7: each bridge table holds exactly one row for every recorded
\* (record_id, entity_id) pair, in first-seen order.
C7_BridgeDedup ==
    finalized =>
        /\ BridgeOf(movie_genres_list, movie_genres_df)
        /\ BridgeOf(movie_production_companies_list, movie_production_companies_df)

C7_Witness ==
    /\ finalized
    /\ Len(movie_genres_df) >= 2
    /\ Len(movie_genres_list) > Len(movie_genres_df)
    /\ \E i \in 1..Len(movies_df) :
           Len(ProcessField(movies_df[i].genres, movies_df[i].id).pairs) >
               Cardinality(Range(ProcessField(movies_df[i].genres, movies_df[i].id).pairs))

\* C8: when the process has ended, on the success path and on every failure
\* path, the extracted copy of the source file no longer exists.
C8_TempFileRemoved == pc = "exited" => csvFile # "extracted"

C8_Witness ==
    /\ pc = "exited"
    /\ exitCode = 1
    /\ exc \in SetIndexFailures \cup {"OSError", "ParserError"}
    /\ csvFile = "absent"

\* The step that processes row index + 1 inside the try block.
RowStep == pc = "rows" /\ index' = index + 1
CurRow == movies_df[index + 1]
ShapeErrors == {"KeyError: 'id'", "KeyError: 'name'"}
ShapeError(cell, id) == ProcessField(cell, id).exc \in ShapeErrors

\* C9 as stated: a row whose genres list holds a malformed entity still
\* contributes all of its production-company entities and associations.
C9_SiblingStillProcessed ==
    [][(RowStep /\ ShapeError(CurRow.genres, CurRow.id)) =>
          /\ production_companies_list' = production_companies_list
                 \o ProcessField(CurRow.production_companies, CurRow.id).ents
          /\ movie_production_companies_list' = movie_production_companies_list
                 \o ProcessField(CurRow.production_companies, CurRow.id).pairs]_vars

\* C9 amended: a malformed genres entity abandons the rest of the row, so the
\* row's production companies contribute nothing; a malformed production-company
\* entity leaves the row's genres, processed before it, recorded in full.
C9_RowAbandoned ==
    [][/\ (RowStep /\ ShapeError(CurRow.genres, CurRow.id)) =>
              /\ production_companies_list' = production_companies_list
              /\ movie_production_companies_list' = movie_production_companies_list
       /\ (RowStep /\ ProcessField(CurRow.genres, CurRow.id).exc = ""
                   /\ ShapeError(CurRow.production_companies, CurRow.id)) =>
              /\ genres_list' = genres_list \o ProcessField(CurRow.genres, CurRow.id).ents
              /\ movie_genres_list' = movie_genres_list
                     \o ProcessField(CurRow.genres, CurRow.id).pairs]_vars

C9_Witness ==
    /\ pc = "rows"
    /\ index = 1
    /\ ShapeError(movies_df[1].genres, movies_df[1].id)
    /\ ProcessField(movies_df[1].production_companies, movies_df[1].id).ents # <<>>
    /\ production_companies_list = <<>>
    /\ movie_production_companies_list = <<>>

\* C10 as stated: a field that fails leaves its registry and its accumulator
\* exactly as they were before the row.
C10_FailingFieldOmitted ==
    [][/\ (RowStep /\ ProcessField(CurRow.genres, CurRow.id).exc # "") =>
              /\ genres_list' = genres_list
              /\ movie_genres_list' = movie_genres_list
       /\ (RowStep /\ ProcessField(CurRow.genres, CurRow.id).exc = ""
                   /\ ProcessField(CurRow.production_companies, CurRow.id).exc # "") =>
              /\ production_companies_list' = production_companies_list
              /\ movie_production_companies_list' = movie_production_companies_list]_vars

WellFormed(e) == {"id", "name"} \subseteq DOMAIN e
\* The entities the parser returned for the cell (none when it is no list).
Parsed(cell) ==
    IF cell.isStr /\ ~Unparseable(cell) /\ cell.json.t = "list" THEN cell.json.items ELSE <<>>
\* The number of entities before the first malformed one.
GoodPrefixLen(items) ==
    IF \A k \in 1..Len(items) : WellFormed(items[k]) THEN Len(items)
    ELSE (CHOOSE k \in 1..Len(items) :
              ~WellFormed(items[k]) /\ \A j \in 1..(k - 1) : WellFormed(items[j])) - 1
PrefixEnts(cell) ==
    [k \in 1..GoodPrefixLen(Parsed(cell)) |->
        [id |-> Parsed(cell)[k].id, name |-> Parsed(cell)[k].name]]
PrefixPairs(cell, movie_id) ==
    [k \in 1..GoodPrefixLen(Parsed(cell)) |->
        [movie_id |-> movie_id, id |-> Parsed(cell)[k].id]]

\* C10 amended: a field that fails has added to its registry and accumulator
\* exactly the well-formed entities that precede the first malformed one in its
\* list, and nothing from the malformed entity on.
C10_PrefixKept ==
    [][/\ (RowStep /\ ProcessField(CurRow.genres, CurRow.id).exc # "") =>
              /\ genres_list' = genres_list \o PrefixEnts(CurRow.genres)
              /\ movie_genres_list' = movie_genres_list
                     \o PrefixPairs(CurRow.genres, CurRow.id)
       /\ (RowStep /\ ProcessField(CurRow.genres, CurRow.id).exc = ""
                   /\ ProcessField(CurRow.production_companies, CurRow.id).exc # "") =>
              /\ production_companies_list' = production_companies_list
                     \o PrefixEnts(CurRow.production_companies)
              /\ movie_production_companies_list' = movie_production_companies_list
                     \o PrefixPairs(CurRow.production_companies, CurRow.id)]_vars

C10_Witness ==
    /\ pc = "rows"
    /\ index = 1
    /\ ProcessField(movies_df[1].genres, movies_df[1].id).exc # ""
    /\ genres_list = <<E2A>>
    /\ movie_genres_list = <<[movie_id |-> movies_df[1].id, id |-> 2]>>

====
